---- MODULE Spec2Model ----
(***************************************************************************)
(* Model of the RoonExtension facade                                       *)
(* (packages/roon-kit/src/RoonExtension.ts).                               *)
(*                                                                         *)
(* The facade owns a configuration object (_options) and a pairing slot    *)
(* (_core, a TransientObject<RoonCore>).  Consumers call start_discovery,  *)
(* ws_connect, set_status, update_options and get_core; the underlying     *)
(* RoonApi client calls the core_paired / core_unpaired callbacks and the  *)
(* transport service calls the subscription callbacks.  JavaScript runs    *)
(* every call and every callback to completion, so each is one action.     *)
(*                                                                         *)
(* ret is the last operation with its arguments and its outcome, out is    *)
(* the sequence of calls that operation made on its collaborators (the     *)
(* RoonApi client, the RoonApiStatus helper, the console, the facade's     *)
(* own EventEmitter and the transport service), in program order.          *)
(***************************************************************************)
EXTENDS Integers, Sequences, FiniteSets, TLC

VARIABLES
    _options,       \* this._options
    _core,          \* this._core: NoSlot while undefined, else the TransientObject
    calls,          \* the promises handed out by get_core, in call order
    subs,           \* subscription callbacks registered with the transport service
    apiStarted,     \* the client's start_discovery / ws_connect has returned
    initCount,      \* history: number of init_services calls made on the client
    startInvoked,   \* history: start_discovery or ws_connect has been invoked
    lastNote,       \* history: the most recent lifecycle notification
    ret,            \* the last operation, its arguments and its outcome
    out             \* the collaborator calls made by the last operation

vars == <<_options, _core, calls, subs, apiStarted, initCount, startInvoked, lastNote, ret, out>>

---------------------------------------------------------------------------
(* Bounds *)

MaxCalls == 2       \* get_core promises outstanding
MaxSubs  == 2       \* subscription callbacks registered

---------------------------------------------------------------------------
(* Values *)

Undef  == "undefined"
NoSlot == "undefined"
NoCore == "no_core"
Cores  == {"C1", "C2"}

ErrAlreadyStarted == "RoonExtension: Discovery has already been started."
ErrNotStarted     == "RoonExtension: Discovery hasn't been started yet. Call start_discovery() first."
ErrCantUpdate     == "RoonExtension: Can't update options after discovery has been started."
ErrClient         == "error raised by the RoonApi client"

\* RoonServiceRequired, and the three values an optional field of that type takes
RoonServiceRequired == {"not_required", "required", "optional"}

Messages   == {"m1", "m2"}
Responses  == {"Subscribed", "Changed"}
Bodies     == {"b1"}
WSOptions  == {"ws1"}
ProvidedLists == {<< >>, <<"SvcA">>}

\* The RoonExtensionOptions a constructor call is given.  description is an
\* opaque value handed to the RoonApi client and is left out.  An unset
\* boolean flag and a false one are both falsy and are one value here.
CtorOptions ==
    [ log_level         : {Undef, "none"},
      RoonApiBrowse     : {Undef},
      RoonApiImage      : {Undef},
      RoonApiTransport  : {Undef} \cup RoonServiceRequired,
      subscribe_outputs : BOOLEAN,
      subscribe_zones   : BOOLEAN ]

\* The Partial<RoonExtensionOptions> arguments given to update_options
UpdateArgs ==
    { [subscribe_zones |-> TRUE],
      [subscribe_outputs |-> TRUE],
      [subscribe_zones |-> FALSE, subscribe_outputs |-> FALSE],
      [log_level |-> "all"],
      [log_level |-> "none"],
      [RoonApiTransport |-> "optional"],
      [RoonApiTransport |-> "not_required", subscribe_zones |-> TRUE] }

---------------------------------------------------------------------------
(* constructor *)

\* constructor upgrading the transport requirement only when none was given
Constructor_onlyIfUnset(options) ==
    IF (options.subscribe_outputs \/ options.subscribe_zones) /\ options.RoonApiTransport = Undef
    THEN [options EXCEPT !.RoonApiTransport = "required"]
    ELSE options

Constructor(options) ==
    LET copy == options
        hasSubscriptions == copy.subscribe_outputs \/ copy.subscribe_zones
    IN  IF hasSubscriptions
        THEN [copy EXCEPT !.RoonApiTransport = "required"]
        ELSE copy

Init ==
    \E options \in CtorOptions :
        /\ _options = Constructor(options)
        /\ _core = NoSlot
        /\ calls = << >>
        /\ subs = << >>
        /\ apiStarted = FALSE
        /\ initCount = 0
        /\ startInvoked = FALSE
        /\ lastNote = [kind |-> "none", core |-> NoCore]
        /\ ret = [op |-> "constructor", arg |-> options, result |-> "ok", pre |-> FALSE]
        /\ out = << >>

---------------------------------------------------------------------------
(* TransientObject (./internals): the pairing slot.  A TransientObject is   *)
(* the value it holds: NoCore while it is empty, a core once it is filled. *)
(* A promise of get_core belongs to the TransientObject that returned it:  *)
(* to the one in this._core (slot "current"), or to one that core_unpaired *)
(* has disposed of and replaced (slot "replaced"), which nothing resolves  *)
(* any more and whose value is therefore kept with the promise.            *)

NewTransient == NoCore

\* dispose(): the object is discarded with its waiters; what it held stays
TransientDispose(slot) == slot

\* resolve(object): empty -> filled(object); returns the object
TransientResolve(slot, object) == IF slot = NoCore THEN object ELSE slot

\* getObject(): the promise of the slot; NoCore while it is pending
TransientGetObject(slot) == slot

---------------------------------------------------------------------------
(* requireService, initializeServices *)

\* requireService putting an optional service on both lists
requireService_optionalOnBoth(setting, svc, lists) ==
    IF setting # Undef
    THEN CASE setting = "required" -> [lists EXCEPT !.required_services = Append(@, svc)]
           [] setting = "optional" -> [lists EXCEPT !.required_services = Append(@, svc),
                                                    !.optional_services = Append(@, svc)]
           [] OTHER -> lists
    ELSE lists

requireService(setting, svc, lists) ==
    IF setting # Undef
    THEN CASE setting = "required" -> [lists EXCEPT !.required_services = Append(@, svc)]
           [] setting = "optional" -> [lists EXCEPT !.optional_services = Append(@, svc)]
           [] OTHER -> lists
    ELSE lists

initializeServices(provided_services) ==
    LET provided == Append(provided_services, "RoonApiStatus")
        l0 == [required_services |-> << >>, optional_services |-> << >>]
        l1 == requireService(_options.RoonApiBrowse, "RoonApiBrowse", l0)
        l2 == requireService(_options.RoonApiImage, "RoonApiImage", l1)
        l3 == requireService(_options.RoonApiTransport, "RoonApiTransport", l2)
    IN  [call |-> "init_services",
         required_services |-> l3.required_services,
         optional_services |-> l3.optional_services,
         provided_services |-> provided]

\* Object.assign(this._options, options)
ObjectAssign(target, source) ==
    [f \in DOMAIN target |-> IF f \in DOMAIN source THEN source[f] ELSE target[f]]

---------------------------------------------------------------------------
(* start_discovery, ws_connect *)

\* instantiateCore() without its guard
instantiateCoreThrows_noGuard == FALSE

\* instantiateCore(): TRUE when it throws
instantiateCoreThrows == _core # NoSlot

\* What the client does with a call: it returns, or it raises an error
\* (init_services, start_discovery and ws_connect are the client's code).
StartOutcomes == {"ok", "init_services raises", "api raises"}

\* start beginning network activity before the services are initialized
start_netFirst(op, arg, provided_services, apiCall) ==
    LET init == initializeServices(provided_services)
    IN  /\ startInvoked' = TRUE
        /\ IF instantiateCoreThrows
           THEN /\ ret' = [op |-> op, arg |-> arg, result |-> ErrAlreadyStarted,
                           pre |-> startInvoked, provided |-> provided_services]
                /\ out' = << >>
                /\ UNCHANGED <<_core, apiStarted, initCount>>
           ELSE /\ _core' = NewTransient
                /\ initCount' = initCount + 1
                /\ apiStarted' = TRUE
                /\ ret' = [op |-> op, arg |-> arg, result |-> "ok", pre |-> startInvoked,
                           provided |-> init.provided_services]
                /\ out' = <<[call |-> "slot.new"], apiCall, init>>
        /\ UNCHANGED <<_options, calls, subs, lastNote>>

\* start initializing the services before it checks the one-shot guard
start_initBeforeGuard(op, arg, provided_services, apiCall) ==
    \E outcome \in StartOutcomes :
        LET init == initializeServices(provided_services)
        IN  /\ startInvoked' = TRUE
            /\ initCount' = initCount + 1
            /\ IF instantiateCoreThrows
               THEN /\ outcome = "ok"
                    /\ ret' = [op |-> op, arg |-> arg, result |-> ErrAlreadyStarted,
                               pre |-> startInvoked, provided |-> init.provided_services]
                    /\ out' = <<init>>
                    /\ UNCHANGED <<_core, apiStarted>>
               ELSE /\ _core' = NewTransient
                    /\ apiStarted' = (outcome = "ok")
                    /\ ret' = [op |-> op, arg |-> arg,
                               result |-> IF outcome = "ok" THEN "ok" ELSE ErrClient,
                               pre |-> startInvoked,
                               provided |-> init.provided_services]
                    /\ out' = <<[call |-> "slot.new"], init>>
                              \o (IF outcome = "init_services raises" THEN << >>
                                  ELSE <<apiCall>>)
            /\ UNCHANGED <<_options, calls, subs, lastNote>>

\* start keeping the slot only when the client calls have returned
start_slotAfterInit(op, arg, provided_services, apiCall) ==
    \E outcome \in StartOutcomes :
        LET init == initializeServices(provided_services)
        IN  /\ startInvoked' = TRUE
            /\ IF instantiateCoreThrows
               THEN /\ outcome = "ok"
                    /\ ret' = [op |-> op, arg |-> arg, result |-> ErrAlreadyStarted,
                               pre |-> startInvoked, provided |-> provided_services]
                    /\ out' = << >>
                    /\ UNCHANGED <<_core, apiStarted, initCount>>
               ELSE /\ _core' = IF outcome = "ok" THEN NewTransient ELSE _core
                    /\ initCount' = initCount + 1
                    /\ apiStarted' = (outcome = "ok")
                    /\ ret' = [op |-> op, arg |-> arg,
                               result |-> IF outcome = "ok" THEN "ok" ELSE ErrClient,
                               pre |-> startInvoked,
                               provided |-> init.provided_services]
                    /\ out' = <<[call |-> "slot.new"], init>>
                              \o (IF outcome = "init_services raises" THEN << >>
                                  ELSE <<apiCall>>)
            /\ UNCHANGED <<_options, calls, subs, lastNote>>

\* ret.provided is the caller's provided_services array after the call
\* (initializeServices pushes onto the caller's array).
start(op, arg, provided_services, apiCall) ==
    \E outcome \in StartOutcomes :
        LET init == initializeServices(provided_services)
        IN  /\ startInvoked' = TRUE
            /\ IF instantiateCoreThrows
               THEN /\ outcome = "ok"
                    /\ ret' = [op |-> op, arg |-> arg, result |-> ErrAlreadyStarted,
                               pre |-> startInvoked, provided |-> provided_services]
                    /\ out' = << >>
                    /\ UNCHANGED <<_core, apiStarted, initCount>>
               ELSE /\ _core' = NewTransient
                    /\ initCount' = initCount + 1
                    /\ apiStarted' = (outcome = "ok")
                    /\ ret' = [op |-> op, arg |-> arg,
                               result |-> IF outcome = "ok" THEN "ok" ELSE ErrClient,
                               pre |-> startInvoked,
                               provided |-> init.provided_services]
                    /\ out' = <<[call |-> "slot.new"], init>>
                              \o (IF outcome = "init_services raises" THEN << >>
                                  ELSE <<apiCall>>)
            /\ UNCHANGED <<_options, calls, subs, lastNote>>

start_discovery ==
    \E provided_services \in ProvidedLists :
        start("start_discovery", <<provided_services>>, provided_services,
              [call |-> "api.start_discovery"])

ws_connect ==
    \E options \in WSOptions, provided_services \in ProvidedLists :
        start("ws_connect", <<options, provided_services>>, provided_services,
              [call |-> "api.ws_connect", options |-> options])

---------------------------------------------------------------------------
(* set_status *)

\* set_status forwarding to the status helper only when logging is enabled
set_status_insideLogGuard ==
    \E message \in Messages, is_error \in BOOLEAN :
        /\ ret' = [op |-> "set_status", arg |-> <<message, is_error>>,
                   result |-> "ok", pre |-> startInvoked]
        /\ out' = IF _options.log_level # "none"
                  THEN <<[call |-> "status.set_status", message |-> message, is_error |-> is_error],
                         IF is_error
                         THEN [call |-> "console.error", prefix |-> "Extension Error: ", message |-> message]
                         ELSE [call |-> "console.log", prefix |-> "Extension Status: ", message |-> message]>>
                  ELSE << >>
        /\ UNCHANGED <<_options, _core, calls, subs, apiStarted, initCount, startInvoked, lastNote>>

set_status ==
    \E message \in Messages, is_error \in BOOLEAN :
        /\ ret' = [op |-> "set_status", arg |-> <<message, is_error>>,
                   result |-> "ok", pre |-> startInvoked]
        /\ out' = <<[call |-> "status.set_status", message |-> message, is_error |-> is_error]>>
                  \o (IF _options.log_level # "none"
                      THEN IF is_error
                           THEN <<[call |-> "console.error", prefix |-> "Extension Error: ", message |-> message]>>
                           ELSE <<[call |-> "console.log", prefix |-> "Extension Status: ", message |-> message]>>
                      ELSE << >>)
        /\ UNCHANGED <<_options, _core, calls, subs, apiStarted, initCount, startInvoked, lastNote>>

---------------------------------------------------------------------------
(* update_options *)

\* update_options without its guard
update_options_noGuard ==
    \E options \in UpdateArgs :
        /\ ret' = [op |-> "update_options", arg |-> options, result |-> "ok",
                   pre |-> startInvoked]
        /\ out' = << >>
        /\ _options' = ObjectAssign(_options, options)
        /\ UNCHANGED <<_core, calls, subs, apiStarted, initCount, startInvoked, lastNote>>

update_options ==
    \E options \in UpdateArgs :
        /\ ret' = [op |-> "update_options", arg |-> options,
                   result |-> IF _core # NoSlot THEN ErrCantUpdate ELSE "ok",
                   pre |-> startInvoked]
        /\ out' = << >>
        /\ _options' = IF _core # NoSlot THEN _options ELSE ObjectAssign(_options, options)
        /\ UNCHANGED <<_core, calls, subs, apiStarted, initCount, startInvoked, lastNote>>

---------------------------------------------------------------------------
(* get_core, ensureStarted *)

\* ensureStarted(): TRUE when it throws
ensureStartedThrows == _core = NoSlot

\* get_core creating the pairing slot on demand instead of throwing
get_core_lazySlot ==
    /\ Len(calls) < MaxCalls
    /\ ret' = [op |-> "get_core", arg |-> << >>, result |-> "promise", pre |-> startInvoked]
    /\ out' = << >>
    /\ _core' = IF _core = NoSlot THEN NewTransient ELSE _core
    /\ calls' = Append(calls, [slot |-> "current", value |-> NoCore])
    /\ UNCHANGED <<_options, subs, apiStarted, initCount, startInvoked, lastNote>>

get_core ==
    /\ ~ensureStartedThrows => Len(calls) < MaxCalls
    /\ ret' = [op |-> "get_core", arg |-> << >>,
               result |-> IF ensureStartedThrows THEN ErrNotStarted ELSE "promise",
               pre |-> startInvoked]
    /\ out' = << >>
    /\ calls' = IF ensureStartedThrows THEN calls
                ELSE Append(calls, [slot |-> "current", value |-> NoCore])
    /\ UNCHANGED <<_options, _core, subs, apiStarted, initCount, startInvoked, lastNote>>

\* What the promise of the i-th get_core call has settled to: a core once
\* its slot is filled, NoCore while it is pending.
CallResult(i) ==
    IF calls[i].slot = "current" THEN TransientGetObject(_core)
    ELSE TransientGetObject(calls[i].value)

---------------------------------------------------------------------------
(* Listeners of the facade's events (EventEmitter.emit runs them inside   *)
(* the callback): a listener does nothing with the facade, or calls        *)
(* get_core, or raises an error, which emit lets through to the callback.  *)

ErrListener == "error raised by a listener"

Listeners == {"none", "get_core"}

\* the promises get_core hands to a listener that calls it
ListenerCalls(listener) ==
    IF listener = "get_core" THEN <<[slot |-> "current", value |-> NoCore]>> ELSE << >>

---------------------------------------------------------------------------
(* core_paired callback *)

core_paired_with(listener) ==
    \E newCore \in Cores :
        LET core == newCore   \* the value resolve() returns
            throws == listener = "throw"
            outputsReq == IF _options.subscribe_outputs /\ ~throws
                          THEN <<[call |-> "transport.subscribe_outputs", core |-> core]>>
                          ELSE << >>
            zonesReq == IF _options.subscribe_zones /\ ~throws
                        THEN <<[call |-> "transport.subscribe_zones", core |-> core]>>
                        ELSE << >>
            newSubs == [i \in 1..Len(outputsReq \o zonesReq) |->
                           [kind |-> IF (outputsReq \o zonesReq)[i].call = "transport.subscribe_outputs"
                                     THEN "subscribe_outputs" ELSE "subscribe_zones",
                            core |-> core]]
        IN  /\ apiStarted
            /\ Len(subs) + Len(newSubs) <= MaxSubs
            /\ Len(calls) + Len(ListenerCalls(listener)) <= MaxCalls
            /\ _core' = TransientResolve(_core, newCore)
            /\ calls' = calls \o ListenerCalls(listener)
            /\ subs' = subs \o newSubs
            /\ out' = <<[call |-> "slot.resolve", core |-> newCore],
                        [call |-> "emit", event |-> "core_paired", core |-> core]>>
                      \o outputsReq \o zonesReq
            /\ ret' = [op |-> "core_paired", arg |-> <<newCore, listener>>,
                       result |-> IF throws THEN ErrListener ELSE "ok",
                       pre |-> startInvoked]
            /\ lastNote' = [kind |-> "core_paired", core |-> newCore]
            /\ UNCHANGED <<_options, apiStarted, initCount, startInvoked>>

core_paired == \E listener \in Listeners : core_paired_with(listener)

---------------------------------------------------------------------------
(* core_unpaired callback *)

\* the promises of the slot in this._core, once that slot has been replaced
Replaced(cs) ==
    [i \in 1..Len(cs) |->
        IF cs[i].slot = "current"
        THEN [slot |-> "replaced", value |-> TransientDispose(_core)]
        ELSE cs[i]]

\* core_unpaired disposing the slot without replacing it
core_unpaired_keepSlot(listener) ==
    \E oldCore \in Cores :
        /\ apiStarted
        /\ Len(calls) + Len(ListenerCalls(listener)) <= MaxCalls
        /\ out' = <<[call |-> "emit", event |-> "core_unpaired", core |-> oldCore],
                    [call |-> "slot.dispose"]>>
        /\ calls' = calls \o ListenerCalls(listener)
        /\ _core' = TransientDispose(_core)
        /\ ret' = [op |-> "core_unpaired", arg |-> <<oldCore, listener>>, result |-> "ok",
                   pre |-> startInvoked]
        /\ lastNote' = [kind |-> "core_unpaired", core |-> oldCore]
        /\ UNCHANGED <<_options, subs, apiStarted, initCount, startInvoked>>

\* core_unpaired replacing the slot before it emits the event
core_unpaired_replaceFirst(listener) ==
    \E oldCore \in Cores :
        /\ apiStarted
        /\ Len(calls) + Len(ListenerCalls(listener)) <= MaxCalls
        /\ out' = <<[call |-> "slot.dispose"], [call |-> "slot.new"],
                    [call |-> "emit", event |-> "core_unpaired", core |-> oldCore]>>
        /\ calls' = Replaced(calls) \o ListenerCalls(listener)
        /\ _core' = NewTransient
        /\ ret' = [op |-> "core_unpaired", arg |-> <<oldCore, listener>>, result |-> "ok",
                   pre |-> startInvoked]
        /\ lastNote' = [kind |-> "core_unpaired", core |-> oldCore]
        /\ UNCHANGED <<_options, subs, apiStarted, initCount, startInvoked>>

\* core_unpaired resolving the waiters of the disposed slot with the old core
core_unpaired_flushWaiters(listener) ==
    \E oldCore \in Cores :
        /\ apiStarted
        /\ Len(calls) + Len(ListenerCalls(listener)) <= MaxCalls
        /\ out' = <<[call |-> "emit", event |-> "core_unpaired", core |-> oldCore],
                    [call |-> "slot.dispose"], [call |-> "slot.new"]>>
        /\ calls' = [i \in 1..Len(calls \o ListenerCalls(listener)) |->
                        LET c == (calls \o ListenerCalls(listener))[i]
                        IN  IF c.slot = "current"
                            THEN [slot |-> "replaced",
                                  value |-> IF _core = NoCore THEN oldCore ELSE _core]
                            ELSE c]
        /\ _core' = NewTransient
        /\ ret' = [op |-> "core_unpaired", arg |-> <<oldCore, listener>>, result |-> "ok",
                   pre |-> startInvoked]
        /\ lastNote' = [kind |-> "core_unpaired", core |-> oldCore]
        /\ UNCHANGED <<_options, subs, apiStarted, initCount, startInvoked>>

\* core_unpaired cancelling the subscriptions of the outgoing core
core_unpaired_cancelSubs(listener) ==
    \E oldCore \in Cores :
        LET throws == listener = "throw"
            kept(sub) == sub.core # oldCore
        IN  /\ apiStarted
            /\ Len(calls) + Len(ListenerCalls(listener)) <= MaxCalls
            /\ out' = <<[call |-> "emit", event |-> "core_unpaired", core |-> oldCore]>>
                      \o (IF throws THEN << >>
                          ELSE <<[call |-> "slot.dispose"], [call |-> "slot.new"]>>)
            /\ calls' = IF throws THEN calls
                        ELSE Replaced(calls \o ListenerCalls(listener))
            /\ _core' = IF throws THEN _core ELSE NewTransient
            /\ subs' = SelectSeq(subs, kept)
            /\ ret' = [op |-> "core_unpaired", arg |-> <<oldCore, listener>>,
                       result |-> IF throws THEN ErrListener ELSE "ok",
                       pre |-> startInvoked]
            /\ lastNote' = [kind |-> "core_unpaired", core |-> oldCore]
            /\ UNCHANGED <<_options, apiStarted, initCount, startInvoked>>

core_unpaired_with(listener) ==
    \E oldCore \in Cores :
        LET throws == listener = "throw"
        IN  /\ apiStarted
            /\ Len(calls) + Len(ListenerCalls(listener)) <= MaxCalls
            /\ out' = <<[call |-> "emit", event |-> "core_unpaired", core |-> oldCore]>>
                      \o (IF throws THEN << >>
                          ELSE <<[call |-> "slot.dispose"], [call |-> "slot.new"]>>)
            /\ calls' = IF throws THEN calls
                        ELSE Replaced(calls \o ListenerCalls(listener))
            /\ _core' = IF throws THEN _core ELSE NewTransient
            /\ ret' = [op |-> "core_unpaired", arg |-> <<oldCore, listener>>,
                       result |-> IF throws THEN ErrListener ELSE "ok",
                       pre |-> startInvoked]
            /\ lastNote' = [kind |-> "core_unpaired", core |-> oldCore]
            /\ UNCHANGED <<_options, subs, apiStarted, initCount, startInvoked>>

core_unpaired == \E listener \in Listeners : core_unpaired_with(listener)

---------------------------------------------------------------------------
(* subscription callbacks: (r, b) => this.emit(<event>, core, r, b) *)

\* subscription callbacks emitting the core now in the slot instead of the
\* core they were created for
subscription_update_currentCore ==
    \E i \in 1..Len(subs), r \in Responses, b \in Bodies :
        /\ out' = <<[call |-> "emit", event |-> subs[i].kind, core |-> _core,
                     response |-> r, body |-> b]>>
        /\ ret' = [op |-> "subscription_update", arg |-> <<i, r, b>>, result |-> "ok",
                   pre |-> startInvoked]
        /\ UNCHANGED <<_options, _core, calls, subs, apiStarted, initCount, startInvoked, lastNote>>

subscription_update ==
    \E i \in 1..Len(subs), r \in Responses, b \in Bodies :
        /\ out' = <<[call |-> "emit", event |-> subs[i].kind, core |-> subs[i].core,
                     response |-> r, body |-> b]>>
        /\ ret' = [op |-> "subscription_update", arg |-> <<i, r, b>>, result |-> "ok",
                   pre |-> startInvoked]
        /\ UNCHANGED <<_options, _core, calls, subs, apiStarted, initCount, startInvoked, lastNote>>

---------------------------------------------------------------------------

Next ==
    \/ start_discovery
    \/ ws_connect
    \/ set_status
    \/ update_options
    \/ get_core
    \/ core_paired
    \/ core_unpaired
    \/ subscription_update

\* The same, with listeners of core_paired / core_unpaired that raise an error
core_paired_listener_raises == core_paired_with("throw")

core_unpaired_listener_raises == core_unpaired_with("throw")

NextListeners ==
    \/ Next
    \/ core_paired_listener_raises
    \/ core_unpaired_listener_raises

SpecListeners == Init /\ [][NextListeners]_vars

Spec == Init /\ [][Next]_vars

---------------------------------------------------------------------------
(* Properties *)

StartOps == {"start_discovery", "ws_connect"}

InSeq(x, s) == \E i \in 1..Len(s) : s[i] = x

\* The core the current slot holds, NoCore when it is empty
CurrentCore == IF _core = NoSlot THEN NoCore ELSE TransientGetObject(_core)

\* The state other than the record of the last operation
facade == <<_options, _core, calls, subs>>

\* C1: once start_discovery or ws_connect has been invoked on the instance,
\* every later start_discovery or ws_connect fails with the 'discovery has
\* already been started' error (and calls nothing on the client).
C1_StartIsOneShot ==
    (ret.op \in StartOps /\ ret.pre) => (ret.result = ErrAlreadyStarted /\ out = << >>)

\* a ws_connect rejected after a start, a pairing and an unpairing
C1_Witness ==
    /\ ret.op = "ws_connect"
    /\ ret.pre
    /\ ret.result = ErrAlreadyStarted
    /\ lastNote.kind = "core_unpaired"
    /\ \E i \in 1..Len(calls) : calls[i] = [slot |-> "replaced", value |-> "C1"]

\* C2 (as claimed): when a core_paired notification arrives with core C,
\* every get_core call that was suspended before it resolves with C,
\* whatever notifications preceded the pairing.
C2_AllSuspendedResolve ==
    [][ret'.op = "core_paired" =>
          \A i \in 1..Len(calls) :
              CallResult(i) = NoCore => CallResult(i)' = ret'.arg[1]]_vars

C4_ConfigurationFrozen ==
    /\ []((ret.op = "update_options" /\ ret.pre) => ret.result = ErrCantUpdate)
    /\ [][startInvoked => _options' = _options]_vars

\* an update_options call rejected after a re-pairing
C4_Witness ==
    /\ ret.op = "update_options"
    /\ ret.pre
    /\ ret.result = ErrCantUpdate
    /\ \E i \in 1..Len(calls) : calls[i] = [slot |-> "replaced", value |-> "C1"]
    /\ lastNote = [kind |-> "core_paired", core |-> "C2"]

\* C5 (as claimed): when a start call succeeds with subscribe_zones or
\* subscribe_outputs set, whether by the constructor or by update_options,
\* the transport service is in the required list passed to init_services.
C5_SubscriptionForcesTransport ==
    (/\ ret.op \in StartOps
     /\ ret.result = "ok"
     /\ (_options.subscribe_zones \/ _options.subscribe_outputs))
        => InSeq("RoonApiTransport", out[2].required_services)

\* C6: get_core before start fails with the 'not started' error and changes
\* nothing: no slot and no promise exists before start, so the first start
\* call succeeds and update_options is accepted until then.
C6_GetCoreBeforeStart ==
    /\ []((ret.op = "get_core" /\ ~ret.pre) => (ret.result = ErrNotStarted /\ out = << >>))
    /\ [](~startInvoked => (_core = NoSlot /\ calls = << >>))
    /\ []((ret.op \in StartOps /\ ~ret.pre) => ret.result # ErrAlreadyStarted)
    /\ []((ret.op = "update_options" /\ ~ret.pre) => ret.result = "ok")
    /\ [][(~startInvoked /\ ret'.op = "get_core") => (facade' = facade /\ ~startInvoked')]_vars

\* a get_core call that failed before start
C6_Witness ==
    /\ ret.op = "get_core"
    /\ ~ret.pre
    /\ ret.result = ErrNotStarted
    /\ ~startInvoked

\* C7: a pairing with core C that finds subscribe_zones (subscribe_outputs)
\* set registers exactly one zones (outputs) callback bound to C, and every
\* update (r, b) delivered to a registered callback emits exactly one event
\* of the callback's kind carrying the callback's core, r and b.
C7_SubscriptionEvents ==
    /\ [](ret.op = "subscription_update" =>
            out = <<[call |-> "emit", event |-> subs[ret.arg[1]].kind,
                     core |-> subs[ret.arg[1]].core,
                     response |-> ret.arg[2], body |-> ret.arg[3]]>>)
    /\ [][(ret'.op = "core_paired" /\ ret'.result = "ok") =>
            subs' = subs
                \o (IF _options.subscribe_outputs
                    THEN <<[kind |-> "subscribe_outputs", core |-> ret'.arg[1]]>> ELSE << >>)
                \o (IF _options.subscribe_zones
                    THEN <<[kind |-> "subscribe_zones", core |-> ret'.arg[1]]>> ELSE << >>)]_vars

\* a zone update delivered to the subscription of C1 while C2 is in the slot
C7_Witness ==
    /\ ret.op = "subscription_update"
    /\ subs[ret.arg[1]] = [kind |-> "subscribe_zones", core |-> "C1"]
    /\ out[1].core = "C1"
    /\ CurrentCore = "C2"

\* C8: set_status always calls the status helper with the exact message and
\* error flag; it writes one console line, on console.error iff is_error,
\* exactly when log_level is not 'none'; it changes neither the
\* configuration nor the pairing slot.
C8_SetStatus ==
    /\ [](ret.op = "set_status" =>
            LET message == ret.arg[1]
                is_error == ret.arg[2]
            IN  /\ ret.result = "ok"
                /\ Len(out) = IF _options.log_level = "none" THEN 1 ELSE 2
                /\ out[1] = [call |-> "status.set_status", message |-> message,
                             is_error |-> is_error]
                /\ Len(out) = 2 =>
                      /\ out[2].call = IF is_error THEN "console.error" ELSE "console.log"
                      /\ out[2].prefix = IF is_error THEN "Extension Error: "
                                         ELSE "Extension Status: "
                      /\ out[2].message = message)
    /\ [][ret'.op = "set_status" => (facade' = facade /\ startInvoked' = startInvoked)]_vars

\* an error status set with logging disabled while a core is paired
C8_Witness ==
    /\ ret.op = "set_status"
    /\ ret.arg = <<"m2", TRUE>>
    /\ _options.log_level = "none"
    /\ CurrentCore = "C1"
    /\ Len(out) = 1

\* C9: right after construction the transport requirement is 'required' if
\* subscribe_outputs or subscribe_zones was given as true, and else is the
\* one given; every other field is as given.
C9_TransportUpgrade ==
    ret.op = "constructor" =>
        LET given == ret.arg
        IN  /\ (given.subscribe_outputs \/ given.subscribe_zones)
                  => _options.RoonApiTransport = "required"
            /\ ~(given.subscribe_outputs \/ given.subscribe_zones)
                  => _options.RoonApiTransport = given.RoonApiTransport
            /\ \A f \in DOMAIN given \ {"RoonApiTransport"} : _options[f] = given[f]

\* constructed with subscribe_outputs and an 'optional' transport
C9_Witness ==
    /\ ret.op = "constructor"
    /\ ret.arg.subscribe_outputs
    /\ ret.arg.RoonApiTransport = "optional"
    /\ _options.RoonApiTransport = "required"

\* C10 (as claimed): after start the slot holds core C exactly when the most
\* recent lifecycle notification was core_paired(C), and holds no core
\* before the first pairing and after an unpairing.
C10_SlotTracksLastNotification ==
    startInvoked =>
        CurrentCore = IF lastNote.kind = "core_paired" THEN lastNote.core ELSE NoCore

\* the provided_services argument of the start call recorded in ret
ProvidedArg == ret.arg[Len(ret.arg)]

\* C11: a start call that succeeds creates the slot, then calls
\* init_services with the caller's list plus the status service, then starts
\* the network activity, in that order; init_services is called once per
\* instance; whenever the network activity has begun or a lifecycle
\* notification has arrived, the slot exists.
C11_StartSequence ==
    /\ (ret.op \in StartOps /\ ret.result = "ok") =>
          /\ Len(out) = 3
          /\ out[1] = [call |-> "slot.new"]
          /\ out[2].call = "init_services"
          /\ out[2].provided_services = Append(ProvidedArg, "RoonApiStatus")
          /\ out[3].call = IF ret.op = "start_discovery" THEN "api.start_discovery"
                           ELSE "api.ws_connect"
    /\ initCount = IF startInvoked THEN 1 ELSE 0
    /\ apiStarted => _core # NoSlot
    /\ lastNote.kind # "none" => (apiStarted /\ _core # NoSlot)

\* a ws_connect that succeeded with an extra provided service
C11_Witness ==
    /\ ret.op = "ws_connect"
    /\ ret.result = "ok"
    /\ ProvidedArg = <<"SvcA">>
    /\ apiStarted
    /\ _core = NewTransient

\* C12 (as claimed): every core_paired(C) notification resolves the slot
\* with C, so that the slot holds C and a listener of core_paired that calls
\* get_core gets C; then it emits core_paired once with C, then issues one
\* subscribe_outputs request iff subscribe_outputs is set, then one
\* subscribe_zones request iff subscribe_zones is set.
C12_PairingSteps ==
    ret.op = "core_paired" =>
        LET C == ret.arg[1]
        IN  /\ CurrentCore = C
            /\ ret.arg[2] = "get_core" => CallResult(Len(calls)) = C
            /\ out = <<[call |-> "slot.resolve", core |-> C],
                       [call |-> "emit", event |-> "core_paired", core |-> C]>>
                     \o (IF _options.subscribe_outputs
                         THEN <<[call |-> "transport.subscribe_outputs", core |-> C]>>
                         ELSE << >>)
                     \o (IF _options.subscribe_zones
                         THEN <<[call |-> "transport.subscribe_zones", core |-> C]>>
                         ELSE << >>)

---------------------------------------------------------------------------
(* Service list assembly: the start operations over every combination of   *)
(* the three service settings.                                            *)

Services == {"RoonApiBrowse", "RoonApiImage", "RoonApiTransport"}

ServiceOptions ==
    [ log_level         : {Undef},
      RoonApiBrowse     : {Undef} \cup RoonServiceRequired,
      RoonApiImage      : {Undef} \cup RoonServiceRequired,
      RoonApiTransport  : {Undef} \cup RoonServiceRequired,
      subscribe_outputs : BOOLEAN,
      subscribe_zones   : BOOLEAN ]

InitServices ==
    \E options \in ServiceOptions :
        /\ _options = Constructor(options)
        /\ _core = NoSlot
        /\ calls = << >>
        /\ subs = << >>
        /\ apiStarted = FALSE
        /\ initCount = 0
        /\ startInvoked = FALSE
        /\ lastNote = [kind |-> "none", core |-> NoCore]
        /\ ret = [op |-> "constructor", arg |-> options, result |-> "ok", pre |-> FALSE]
        /\ out = << >>

NextServices ==
    \/ update_options
    \/ start_discovery
    \/ ws_connect

SpecServices == InitServices /\ [][NextServices]_vars

\* C14 (as claimed): whatever the listeners do, every core_unpaired
\* notification ends with a fresh empty slot in place, and every core_paired
\* notification ends with the slot filled and one subscription request
\* issued per enabled flag.
C14_DeliveryAlwaysCompletes ==
    /\ ret.op = "core_unpaired" => _core = NewTransient
    /\ ret.op = "core_paired" =>
          /\ CurrentCore # NoCore
          /\ Len(out) = 2 + (IF _options.subscribe_outputs THEN 1 ELSE 0)
                          + (IF _options.subscribe_zones THEN 1 ELSE 0)

\* C15 (as claimed): a core_unpaired notification that follows another with
\* no pairing in between raises no error and is a no-op on the pairing
\* state: the slot is empty before and after, and the callers suspended on
\* it are still the ones the next core_paired resolves.
C15_SecondUnpairIsNoOp ==
    [][(lastNote.kind = "core_unpaired" /\ ret'.op = "core_unpaired") =>
          /\ ret'.result = "ok"
          /\ _core' = _core
          /\ \A i \in 1..Len(calls) :
                calls[i].slot = "current" => calls'[i].slot = "current"]_vars

\* C16: a pending get_core promise is settled by a core_paired notification
\* only: across every other step it stays pending (no operation resolves,
\* rejects or drops it), and while it is pending set_status, update_options,
\* start_discovery, ws_connect and core_unpaired can still be called.
C16_NoTimeout ==
    /\ [][/\ Len(calls') >= Len(calls)
          /\ \A i \in 1..Len(calls) :
                (CallResult(i) = NoCore /\ ret'.op # "core_paired")
                    => CallResult(i)' = NoCore]_vars
    /\ []((\E i \in 1..Len(calls) : CallResult(i) = NoCore) =>
            /\ ENABLED set_status
            /\ ENABLED update_options
            /\ ENABLED start_discovery
            /\ ENABLED ws_connect
            /\ apiStarted => ENABLED core_unpaired_with("none"))

\* a promise still pending after an unpairing, with set_status just served
C16_Witness ==
    /\ ret.op = "set_status"
    /\ lastNote.kind = "core_unpaired"
    /\ Len(calls) = 2
    /\ calls[1] = [slot |-> "replaced", value |-> NoCore]
    /\ CallResult(1) = NoCore
    /\ calls[2].slot = "current"

\* the elements of a list
Range(seq) == {seq[i] : i \in 1..Len(seq)}

\* C17: in the init_services call of a start operation, each of the three
\* services is on the required list iff its setting is 'required', on the
\* optional list iff its setting is 'optional', hence on neither when the
\* setting is 'not_required' or unset; no service is on both lists or twice
\* on one; the provided list is the caller's list followed by the status
\* service.
C17_ServiceLists ==
    (ret.op \in StartOps /\ ret.result # ErrAlreadyStarted) =>
        LET init == out[2]
            required == Range(init.required_services)
            optional == Range(init.optional_services)
        IN  /\ init.call = "init_services"
            /\ required \cup optional \subseteq Services
            /\ \A svc \in Services :
                  /\ svc \in required <=> _options[svc] = "required"
                  /\ svc \in optional <=> _options[svc] = "optional"
                  /\ _options[svc] \in {Undef, "not_required"}
                        => svc \notin required \cup optional
            /\ required \cap optional = {}
            /\ Cardinality(required) = Len(init.required_services)
            /\ Cardinality(optional) = Len(init.optional_services)
            /\ init.provided_services = Append(ProvidedArg, "RoonApiStatus")

\* one required, one optional and one not_required service, one extra
\* provided service
C17_Witness ==
    /\ ret.op = "ws_connect"
    /\ ret.result = "ok"
    /\ _options.RoonApiBrowse = "not_required"
    /\ out[2].required_services = <<"RoonApiTransport">>
    /\ out[2].optional_services = <<"RoonApiImage">>
    /\ out[2].provided_services = <<"SvcA", "RoonApiStatus">>

\* C18: a start call rejected with 'already started' calls neither
\* init_services nor the client's start_discovery / ws_connect, leaves the
\* caller's provided_services list as it was given, and keeps the
\* configuration, the slot with the core it holds, the promises attached to
\* it and the subscriptions; the promises pending on the kept slot are
\* resolved by the next pairing.
C18_RejectedStartHasNoEffect ==
    /\ [][(ret'.op \in StartOps /\ ret'.result = ErrAlreadyStarted) =>
            /\ out' = << >>
            /\ ret'.provided = ProvidedArg'
            /\ facade' = facade
            /\ initCount' = initCount
            /\ apiStarted' = apiStarted]_vars
    /\ [][(ret.op \in StartOps /\ ret.result = ErrAlreadyStarted
             /\ ret'.op = "core_paired" /\ CurrentCore = NoCore) =>
            \A i \in 1..Len(calls) :
                calls[i].slot = "current" => CallResult(i)' = ret'.arg[1]]_vars

\* a rejected ws_connect that was given an extra service, on a slot that
\* holds C1 and has a promise attached
C18_Witness ==
    /\ ret.op = "ws_connect"
    /\ ret.result = ErrAlreadyStarted
    /\ ProvidedArg = <<"SvcA">>
    /\ CurrentCore = "C1"
    /\ Len(calls) >= 1
    /\ calls[Len(calls)].slot = "current"

\* the first start call has raised an error of the client
StartRaised == startInvoked /\ ~apiStarted

\* C19: a start call in which init_services or the client's start_discovery
\* / ws_connect raises returns that error with the slot already created;
\* from then on start_discovery and ws_connect fail with 'already started',
\* update_options fails and leaves the configuration, and get_core returns
\* a pending promise.
C19_GuardConsumedFirst ==
    /\ []((ret.op \in StartOps /\ ret.result = ErrClient) =>
            /\ StartRaised
            /\ _core = NewTransient
            /\ out[1] = [call |-> "slot.new"])
    /\ [](StartRaised => _core # NoSlot)
    /\ [][StartRaised =>
            /\ ret'.op \in StartOps => ret'.result = ErrAlreadyStarted
            /\ ret'.op = "update_options" =>
                  ret'.result = ErrCantUpdate /\ _options' = _options
            /\ ret'.op = "get_core" =>
                  /\ ret'.result = "promise"
                  /\ Len(calls') = Len(calls) + 1
                  /\ calls'[Len(calls')] = [slot |-> "current", value |-> NoCore]
                  /\ _core' = NewTransient]_vars

\* get_core served after a start call in which the client raised
C19_Witness ==
    /\ StartRaised
    /\ initCount = 1
    /\ ret.op = "get_core"
    /\ ret.result = "promise"
    /\ CallResult(Len(calls)) = NoCore

====
